---- MODULE Spec2Model ----
(***************************************************************************)
(* Model of Gocator/ReceiveSurfaceAsync.c: main() arms a session, the SDK  *)
(* calls onData() once per delivered data set, onData() writes one binary  *)
(* artifact per Surface message and one text line per measurement.         *)
(***************************************************************************)
EXTENDS Integers, Sequences, FiniteSets, TLC

\* ------------------------------------------------------------------ bounds
MaxBatches == 2        \* data sets delivered in one session
MaxBatchLen == 3       \* messages in one data set
MaxSurfaces == 2       \* Surface messages delivered in one session
MaxMeasMsgs == 2       \* Measurement messages delivered in one session
MaxTime == 1           \* system times seen when artifacts are named
MaxMessages == 4       \* messages handled in one session
MaxIoFailures == 1     \* failed fopen or short fwrite calls in one session
MaxEarlyBatches == 1   \* data sets delivered before the sensor is started

\* ------------------------------------------------------- program constants
HEADERTEXT == "MHSKJELV VER0001"
SizeofHEADERTEXT == 17          \* sizeof of the string literal, with its terminator
SizeofK64u == 8
SizeofK32u == 4
SizeofK64f == 8
SizeofK16s == 2
NmPerMm == 1000000
UmPerMm == 1000
INVALID_RANGE_16BIT == -32768

\* ------------------------------------------------------------------ inputs
\* Values an uninitialised field of the stack object contextPointer may hold.
\* (stand-ins for arbitrary bit patterns; 0 is one of them)
UninitStamps == {0, 999}
UninitCounts == {77}
Garbage == "garbage"

FrameRates == {25}
Exposures == {500}

StampMsg(s) == [type |-> "STAMP", stamps |-> s]
MeasurementMsg(id, v) == [type |-> "MEASUREMENT", id |-> id, values |-> v]
OtherMsg == [type |-> "OTHER"]
SurfaceA == [type |-> "SURFACE", width |-> 3, length |-> 1,
             xRes |-> 1000000, yRes |-> 500000, zRes |-> 2000,
             xOff |-> 1000, yOff |-> -2500, zOff |-> 0,
             rows |-> << <<INVALID_RANGE_16BIT, 5, -6>> >>]
SurfaceB == [type |-> "SURFACE", width |-> 1, length |-> 2,
             xRes |-> 250000, yRes |-> 1000000, zRes |-> 3000000,
             xOff |-> 0, yOff |-> 1000, zOff |-> -500,
             rows |-> << <<7>>, <<INVALID_RANGE_16BIT>> >>]

StampMsgs == {StampMsg(<<100>>), StampMsg(<<200, 300>>)}
SurfaceMsgs == {SurfaceA, SurfaceB}
\* measurement values are given in units of 1e-5 (314159 is 3.14159)
MeasurementMsgs == {MeasurementMsg(7, <<314159, -250100>>)}
Messages == StampMsgs \cup SurfaceMsgs \cup MeasurementMsgs \cup {OtherMsg}

RECURSIVE SeqsUpTo(_, _)
SeqsUpTo(S, n) ==
  IF n = 0 THEN {<< >>}
  ELSE LET shorter == SeqsUpTo(S, n - 1)
       IN shorter \cup {Append(s, m) : s \in {t \in shorter : Len(t) = n - 1}, m \in S}

CountType(b, t) == Cardinality({p \in 1..Len(b) : b[p].type = t})
Batches == SeqsUpTo(Messages, MaxBatchLen)

\* ------------------------------------------------------ onData's helpers
\* StampLoop with a fault: the loop stops after the first stamp.
StampLoopFirstOnly(timeStamp, stamps, j) ==
  IF j < Len(stamps) THEN stamps[1] ELSE timeStamp

\* The loop over the stamps of a Stamp message: every stamp is copied to the
\* context, one after the other.
RECURSIVE StampLoop(_, _, _)
StampLoop(timeStamp, stamps, j) ==
  IF j < Len(stamps) THEN StampLoop(stamps[j + 1], stamps, j + 1) ELSE timeStamp

Abs(n) == IF n < 0 THEN -n ELSE n

RECURSIVE Gcd(_, _)
Gcd(a, b) == IF b = 0 THEN a ELSE Gcd(b, a % b)

\* The quotient value/divisor of a k64f division, kept as a reduced fraction.
Quotient(value, divisor) ==
  LET g == Gcd(Abs(value), divisor)
  IN [num |-> value \div g, den |-> divisor \div g]

\* NM_TO_MM with a fault: nanometres are divided by 1000.
NM_TO_MM_Thousand(value) == Quotient(value, UmPerMm)

NM_TO_MM(value) == Quotient(value, NmPerMm)
UM_TO_MM(value) == Quotient(value, UmPerMm)

\* One fwrite(ptr, size, 1, fptr): the field written, its size, its value.
Chunk(field, size, value) == [field |-> field, size |-> size, value |-> value]

\* HeaderWrites with a fault: the tag is written with its null terminator.
HeaderWritesWithTerminator(msg, c) ==
  << Chunk("headerText", SizeofHEADERTEXT, HEADERTEXT),
     Chunk("timeStamp", SizeofK64u, c.timeStamp),
     Chunk("surfaceWidth", SizeofK32u, msg.width),
     Chunk("surfaceLength", SizeofK32u, msg.length),
     Chunk("XOffset", SizeofK64f, UM_TO_MM(msg.xOff)),
     Chunk("XResolution", SizeofK64f, NM_TO_MM(msg.xRes)),
     Chunk("YOffset", SizeofK64f, UM_TO_MM(msg.yOff)),
     Chunk("YResolution", SizeofK64f, NM_TO_MM(msg.yRes)),
     Chunk("ZOffset", SizeofK64f, UM_TO_MM(msg.zOff)),
     Chunk("ZResolution", SizeofK64f, NM_TO_MM(msg.zRes)),
     Chunk("frameRate", SizeofK64f, c.frameRate),
     Chunk("exposureTime", SizeofK64f, c.exposureTime) >>

\* The twelve fwrite calls of the header, in program order.
HeaderWrites(msg, c) ==
  << Chunk("headerText", SizeofHEADERTEXT - 1, HEADERTEXT),
     Chunk("timeStamp", SizeofK64u, c.timeStamp),
     Chunk("surfaceWidth", SizeofK32u, msg.width),
     Chunk("surfaceLength", SizeofK32u, msg.length),
     Chunk("XOffset", SizeofK64f, UM_TO_MM(msg.xOff)),
     Chunk("XResolution", SizeofK64f, NM_TO_MM(msg.xRes)),
     Chunk("YOffset", SizeofK64f, UM_TO_MM(msg.yOff)),
     Chunk("YResolution", SizeofK64f, NM_TO_MM(msg.yRes)),
     Chunk("ZOffset", SizeofK64f, UM_TO_MM(msg.zOff)),
     Chunk("ZResolution", SizeofK64f, NM_TO_MM(msg.zRes)),
     Chunk("frameRate", SizeofK64f, c.frameRate),
     Chunk("exposureTime", SizeofK64f, c.exposureTime) >>

\* RowWrites with a fault: a row is written with one byte per sample.
RowWritesNoSizeof(msg) ==
  [rowIdx \in 1..msg.length |-> [field |-> "row", size |-> msg.width, value |-> msg.rows[rowIdx]]]

\* RowWrites with a fault: the rows are written last row first.
RowWritesReversed(msg) ==
  [rowIdx \in 1..msg.length |->
     [field |-> "row", size |-> msg.width * SizeofK16s,
      value |-> msg.rows[msg.length + 1 - rowIdx]]]

\* The fwrite calls of the row loop, rowIdx = 0 .. length-1.
RowWrites(msg) ==
  [rowIdx \in 1..msg.length |->
     Chunk("row", msg.width * SizeofK16s, msg.rows[rowIdx])]

SurfaceWrites(msg, c) == HeaderWrites(msg, c) \o RowWrites(msg)

\* What reaches the file when the fwrite calls numbered in failed are short:
\* a short fwrite of one item leaves no item in the file.
RECURSIVE Written(_, _, _)
Written(writes, failed, n) ==
  IF n > Len(writes) THEN << >>
  ELSE (IF n \in failed THEN << >> ELSE <<writes[n]>>) \o Written(writes, failed, n + 1)

\* The warnings of the row loop: one per row whose fwrite did not return 1.
RECURSIVE RowWarnings(_, _, _)
RowWarnings(msg, failed, rowIdx) ==
  IF rowIdx > msg.length THEN << >>
  ELSE (IF (12 + rowIdx) \in failed
        THEN <<"WARNING: Error while writing surface to file">> ELSE << >>)
       \o RowWarnings(msg, failed, rowIdx + 1)

RECURSIVE FileSize(_)
FileSize(chunks) ==
  IF chunks = << >> THEN 0 ELSE Head(chunks).size + FileSize(Tail(chunks))

\* FileName with a fault: the count is left out of the name.
FileNameWithoutCount(time, count) == [time |-> time, count |-> 0]

\* The name of an artifact: the system time and the count, "%04ld".
FileName(time, count) == [time |-> time, count |-> count]

Digit(d) ==
  CASE d = 0 -> "0" [] d = 1 -> "1" [] d = 2 -> "2" [] d = 3 -> "3" [] d = 4 -> "4"
    [] d = 5 -> "5" [] d = 6 -> "6" [] d = 7 -> "7" [] d = 8 -> "8" [] d = 9 -> "9"

RECURSIVE Digits(_)
Digits(n) == IF n < 10 THEN Digit(n) ELSE Digits(n \div 10) \o Digit(n % 10)

RECURSIVE PadLeft(_, _)
PadLeft(str, width) == IF Len(str) >= width THEN str ELSE PadLeft(" " \o str, width)

\* printf's "%4.0u": precision 0 prints no digit for the value 0.
Fmt4_0u(n) == PadLeft(IF n = 0 THEN "" ELSE Digits(n), 4)

\* printf's "%.2f" of a value given in units of 1e-5; the input values are
\* never halfway between two hundredths.
Fmt_2f(v) ==
  LET hundredths == (Abs(v) + 500) \div 1000
      frac == hundredths % 100
  IN (IF v < 0 THEN "-" ELSE "") \o Digits(hundredths \div 100) \o "."
     \o Digit(frac \div 10) \o Digit(frac % 10)

\* fprintf(measFilePointer, "%4.0u;%4.0u; %.2f\r\n", count, id, value)
MeasLine(count, id, value) ==
  Fmt4_0u(count) \o ";" \o Fmt4_0u(id) \o "; " \o Fmt_2f(value) \o "\r\n"

\* fprintf(measFilePointer, "Surface number; Measurement ID; Measurement value\r\n")
MeasHeaderLine ==
  "Surface number; Measurement ID; Measurement value\r\n"

\* A line of the log: its text and the measurement it was written for (the
\* data set, the message's index in it, the measurement's index in the message).
LogLine(text, batch, idx, k) == [text |-> text, batch |-> batch, idx |-> idx, k |-> k]

\* MeasLoop with a fault: each line is put before the lines written so far.
RECURSIVE MeasLoopPrepend(_, _, _, _, _, _)
MeasLoopPrepend(lines, count, msg, batch, idx, k) ==
  IF k < Len(msg.values)
  THEN MeasLoopPrepend(<<LogLine(MeasLine(count, msg.id, msg.values[k + 1]), batch, idx, k)>>
                         \o lines,
                       count, msg, batch, idx, k + 1)
  ELSE lines

\* The loop over the measurements of a Measurement message: one fprintf each.
RECURSIVE MeasLoop(_, _, _, _, _, _)
MeasLoop(lines, count, msg, batch, idx, k) ==
  IF k < Len(msg.values)
  THEN MeasLoop(Append(lines, LogLine(MeasLine(count, msg.id, msg.values[k + 1]), batch, idx, k)),
                count, msg, batch, idx, k + 1)
  ELSE lines

\* ------------------------------------------------------------------- state
VARIABLES
  pc,          \* position of main()
  setup,       \* the GoSetup handle held by main: "kNULL" or "handle"
  ctx,         \* contextPointer, the DataContext shared with onData
  handlerSet,  \* GoSystem_SetDataHandler has registered onData
  running,     \* the sensor has been started and not stopped
  measFile,    \* the measurement log: its state, its lines, fclose calls on it
  files,       \* the artifact files on disk, by name
  console,     \* the diagnostics printf has written (errors, warnings, reports)
  inCallback,  \* an invocation of onData is in flight
  dataset,     \* the data set of the invocation in flight
  i,           \* loop index of onData
  ret,         \* status returned by the last finished invocation of onData
  destroyed,   \* GoDestroy calls on the data set of the last invocation
  nDelivered,  \* data sets delivered so far
  hist         \* the messages onData has handled so far, in order

vars == <<pc, setup, ctx, handlerSet, running, measFile, files, console,
          inCallback, dataset, i, ret, destroyed, nDelivered, hist>>

mainVars == <<pc, setup, handlerSet, running>>
cbVars == <<inCallback, dataset, i, ret, destroyed, nDelivered, hist>>

Init ==
  /\ pc = "GoSdk_Construct"
  /\ setup = "kNULL"
  /\ ctx \in [count : UninitCounts, timeStamp : UninitStamps,
              frameRate : {Garbage}, exposureTime : {Garbage},
              measFilePointer : {Garbage}]
  /\ handlerSet = FALSE
  /\ running = FALSE
  /\ measFile = [state |-> "none", lines |-> << >>, closes |-> 0]
  /\ files = << >>
  /\ console = << >>
  /\ inCallback = FALSE
  /\ dataset = << >>
  /\ i = 0
  /\ ret = "none"
  /\ destroyed = 0
  /\ nDelivered = 0
  /\ hist = << >>

\* -------------------------------------------------------------------- main
\* A call of the SDK that main checks: on kOK go to next, otherwise print the
\* error and return from main.
SdkStep(here, next, err) ==
  /\ pc = here
  /\ \E status \in {"kOK", "kERROR"} :
       IF status = "kOK"
       THEN /\ pc' = next
            /\ console' = console
       ELSE /\ pc' = "returned"
            /\ console' = Append(console, err)

MainSdkConstruct ==
  /\ SdkStep("GoSdk_Construct", "GoSystem_Construct", "Error: GoSdk_Construct")
  /\ UNCHANGED <<setup, ctx, handlerSet, running, measFile, files>>
  /\ UNCHANGED cbVars

MainSystemConstruct ==
  /\ SdkStep("GoSystem_Construct", "GoSystem_FindSensor", "Error: GoSystem_Construct")
  /\ UNCHANGED <<setup, ctx, handlerSet, running, measFile, files>>
  /\ UNCHANGED cbVars

MainFindSensor ==
  /\ SdkStep("GoSystem_FindSensor", "GoSystem_Connect", "Error: GoSystem_FindSensor")
  /\ UNCHANGED <<setup, ctx, handlerSet, running, measFile, files>>
  /\ UNCHANGED cbVars

MainConnect ==
  /\ SdkStep("GoSystem_Connect", "GoSystem_EnableData", "Error: GoSystem_Connect")
  /\ UNCHANGED <<setup, ctx, handlerSet, running, measFile, files>>
  /\ UNCHANGED cbVars

MainEnableData ==
  /\ SdkStep("GoSystem_EnableData", "GoSystem_SetDataHandler", "Error: GoSensor_EnableData")
  /\ UNCHANGED <<setup, ctx, handlerSet, running, measFile, files>>
  /\ UNCHANGED cbVars

MainSetDataHandler ==
  /\ SdkStep("GoSystem_SetDataHandler", "GoSensor_Setup", "Error: GoSystem_SetDataHandler")
  /\ handlerSet' = (pc' = "GoSensor_Setup")
  /\ UNCHANGED <<setup, ctx, running, measFile, files>>
  /\ UNCHANGED cbVars

\* Retrieve the setup handle: a null handle is reported and main goes on.
MainSetup ==
  /\ pc = "GoSensor_Setup"
  /\ \E h \in {"handle", "kNULL"} :
       /\ setup' = h
       /\ console' = IF h = "kNULL"
                     THEN Append(console, "Error: GoSensor_Setup: Invalid Handle")
                     ELSE console
  /\ pc' = "ResetCounter"
  /\ UNCHANGED <<ctx, handlerSet, running, measFile, files>>
  /\ UNCHANGED cbVars

\* Reset the counter and read the camera settings through the setup handle.
\* What the SDK's getters do with a null handle is not decided by this
\* program: they return any value, or the process stops.
MainResetCounter ==
  /\ pc = "ResetCounter"
  /\ \E fr \in IF setup = "kNULL" THEN {Garbage} ELSE FrameRates,
        ex \in IF setup = "kNULL" THEN {Garbage} ELSE Exposures :
       ctx' = [ctx EXCEPT !.count = 0, !.frameRate = fr, !.exposureTime = ex]
  /\ \/ pc' = "GoSetup_ScanMode"
     \/ \* the getter dereferences the null handle: the process stops
        /\ setup = "kNULL"
        /\ pc' = "crashed"
  /\ UNCHANGED <<setup, handlerSet, running, measFile, files, console>>
  /\ UNCHANGED cbVars

\* Check the scan mode, change it to surface mode if needed, flush.
MainScanMode ==
  /\ pc = "GoSetup_ScanMode"
  /\ \E scanMode \in {"GO_MODE_SURFACE", "GO_MODE_PROFILE"}, status \in {"kOK", "kERROR"} :
       IF scanMode = "GO_MODE_SURFACE"
       THEN /\ pc' = "OpenLog"
            /\ console' = console
       ELSE IF status = "kOK"
            THEN /\ pc' = "OpenLog"
                 /\ console' = console
            ELSE /\ pc' = "returned"
                 /\ console' = Append(console, "Error: GoSetup_SetScanMode")
  /\ UNCHANGED <<setup, ctx, handlerSet, running, measFile, files>>
  /\ UNCHANGED cbVars

\* Open the measurement output file and write its header line.
MainOpenLog ==
  /\ pc = "OpenLog"
  /\ \E opened \in BOOLEAN :
       IF opened
       THEN /\ ctx' = [ctx EXCEPT !.measFilePointer = "measFile"]
            /\ measFile' = [measFile EXCEPT !.state = "open",
                 !.lines = <<LogLine(MeasHeaderLine, 0, 0, 0)>>]
            /\ console' = console
            /\ pc' = "WaitStart"
       ELSE /\ ctx' = [ctx EXCEPT !.measFilePointer = "NULL"]
            /\ measFile' = measFile
            /\ console' = Append(console, "Error opening file")
            /\ pc' = "returned"
  /\ UNCHANGED <<setup, handlerSet, running, files>>
  /\ UNCHANGED cbVars

\* The user presses ENTER; start the sensor.
MainStart ==
  /\ SdkStep("WaitStart", "Logging", "Error: GoSystem_Start")
  /\ running' = (pc' = "Logging")
  /\ UNCHANGED <<setup, ctx, handlerSet, measFile, files>>
  /\ UNCHANGED cbVars

\* The user presses ENTER again; stop the sensor.  GoSystem_Stop returns once
\* no invocation of the data handler is in flight.
MainStop ==
  /\ ~inCallback
  /\ SdkStep("Logging", "Close", "Error: GoSystem_Stop")
  /\ running' = FALSE
  /\ UNCHANGED <<setup, ctx, handlerSet, measFile, files>>
  /\ UNCHANGED cbVars

\* Close the log, destroy the handles, report, return.
MainClose ==
  /\ pc = "Close"
  /\ measFile' = [measFile EXCEPT !.state = "closed", !.closes = @ + 1]
  /\ console' = console
  /\ pc' = "returned"
  /\ UNCHANGED <<setup, ctx, handlerSet, running, files>>
  /\ UNCHANGED cbVars

Main ==
  \/ MainSdkConstruct \/ MainSystemConstruct \/ MainFindSensor \/ MainConnect
  \/ MainEnableData \/ MainSetDataHandler \/ MainSetup \/ MainResetCounter
  \/ MainScanMode \/ MainOpenLog \/ MainStart \/ MainStop \/ MainClose

\* ------------------------------------------------------------------ onData
\* Times GetSystemTime may return when an artifact is named.
Times == 1..MaxTime

\* Sets of fwrite calls that may be short while one artifact is written:
\* none, or any single one of them.
FailSets(msg) == {{}} \cup {{n} : n \in 1..(12 + msg.length)}

\* Values the caller may see after "return;" in a function returning kStatus.
IndeterminateStatus == {"kOK", "kERROR"}

Handled(t) == Cardinality({p \in 1..Len(hist) : hist[p].type = t})

IoFailures ==
  Cardinality({p \in 1..Len(hist) :
                 hist[p].type = "SURFACE" /\ (~hist[p].opened \/ hist[p].failed # {})})

\* The process runs: main has neither returned nor been stopped by a fault.
Alive == pc \notin {"returned", "crashed"}

\* The SDK delivers a data set to the registered handler while the sensor runs,
\* one invocation at a time.
Deliver ==
  /\ Alive
  /\ running
  /\ handlerSet
  /\ ~inCallback
  /\ nDelivered < MaxBatches
  /\ \E b \in Batches :
       /\ Handled("SURFACE") + CountType(b, "SURFACE") <= MaxSurfaces
       /\ Handled("MEASUREMENT") + CountType(b, "MEASUREMENT") <= MaxMeasMsgs
       /\ Len(hist) + Len(b) <= MaxMessages
       /\ dataset' = b
  /\ inCallback' = TRUE
  /\ i' = 0
  /\ ret' = "pending"
  /\ destroyed' = 0
  /\ nDelivered' = nDelivered + 1
  /\ UNCHANGED <<pc, setup, ctx, handlerSet, running, measFile, files, console, hist>>

InLoop(t) ==
  /\ Alive
  /\ inCallback
  /\ i < Len(dataset)
  /\ dataset[i + 1].type = t

\* case GO_DATA_MESSAGE_TYPE_STAMP
OnDataStamp ==
  /\ InLoop("STAMP")
  /\ LET stampMsg == dataset[i + 1]
     IN /\ ctx' = [ctx EXCEPT !.timeStamp = StampLoop(@, stampMsg.stamps, 0)]
        /\ hist' = Append(hist, [type |-> "STAMP", batch |-> nDelivered, idx |-> i,
                                 stamps |-> stampMsg.stamps])
  /\ i' = i + 1
  /\ UNCHANGED <<pc, setup, handlerSet, running, measFile, files, console,
                 inCallback, dataset, ret, destroyed, nDelivered>>

\* IncrementCount with a fault: the counter restarts with every surface.
IncrementCountReset(count) == 1

\* context->count++
IncrementCount(count) == count + 1

\* case GO_DATA_MESSAGE_TYPE_SURFACE
OnDataSurface ==
  /\ InLoop("SURFACE")
  /\ LET surfaceMsg == dataset[i + 1]
         count == IncrementCount(ctx.count)
     IN \E time \in Times, opened \in BOOLEAN, failed \in FailSets(surfaceMsg) :
          LET filename == FileName(time, count)
              c == [ctx EXCEPT !.count = count]
              printed == IF opened
                         THEN RowWarnings(surfaceMsg, failed, 1) \o <<"Surface written to file">>
                         ELSE <<"Error opening file">>
          IN /\ ctx' = c
             /\ (~opened => failed = {})
             /\ (~opened \/ failed # {}) => IoFailures < MaxIoFailures
             /\ console' = console \o printed
             /\ hist' = Append(hist, [type |-> "SURFACE", batch |-> nDelivered, idx |-> i,
                                      msg |-> surfaceMsg, filename |-> filename,
                                      opened |-> opened, failed |-> failed,
                                      timeStamp |-> ctx.timeStamp, printed |-> printed])
             /\ IF opened
                THEN /\ files' = (filename :> Written(SurfaceWrites(surfaceMsg, c), failed, 1))
                                   @@ files
                     /\ i' = i + 1
                     /\ UNCHANGED <<inCallback, ret>>
                ELSE \* "return;": the loop is left, the data set is not destroyed
                     /\ files' = files
                     /\ i' = i
                     /\ inCallback' = FALSE
                     /\ ret' \in IndeterminateStatus
  /\ UNCHANGED <<pc, setup, handlerSet, running, measFile, dataset, destroyed,
                 nDelivered>>

\* OnDataMeasurement with a fault: a measurement also advances the scan counter.
OnDataMeasurementCounting ==
  /\ InLoop("MEASUREMENT")
  /\ LET measurementMsg == dataset[i + 1]
     IN /\ hist' = Append(hist, [type |-> "MEASUREMENT", batch |-> nDelivered, idx |-> i,
                                 msg |-> measurementMsg, count |-> ctx.count])
        /\ measFile' = [measFile EXCEPT
             !.lines = MeasLoop(@, ctx.count, measurementMsg, nDelivered, i, 0)]
  /\ ctx' = [ctx EXCEPT !.count = @ + 1]
  /\ i' = i + 1
  /\ UNCHANGED <<pc, setup, handlerSet, running, files, console,
                 inCallback, dataset, ret, destroyed, nDelivered>>

\* case GO_DATA_MESSAGE_TYPE_MEASUREMENT
OnDataMeasurement ==
  /\ InLoop("MEASUREMENT")
  /\ LET measurementMsg == dataset[i + 1]
     IN /\ hist' = Append(hist, [type |-> "MEASUREMENT", batch |-> nDelivered, idx |-> i,
                                 msg |-> measurementMsg, count |-> ctx.count])
        /\ IF ctx.measFilePointer = "measFile" /\ measFile.state = "open"
           THEN /\ measFile' = [measFile EXCEPT
                     !.lines = MeasLoop(@, ctx.count, measurementMsg, nDelivered, i, 0)]
                /\ i' = i + 1
                /\ pc' = pc
           ELSE \* fprintf through a pointer that is no open stream: the process stops
                /\ measFile' = measFile
                /\ i' = i
                /\ pc' = "crashed"
  /\ UNCHANGED <<setup, ctx, handlerSet, running, files, console,
                 inCallback, dataset, ret, destroyed, nDelivered>>

\* any other message type: no case of the switch
OnDataOther ==
  /\ InLoop("OTHER")
  /\ hist' = Append(hist, [type |-> "OTHER", batch |-> nDelivered, idx |-> i])
  /\ i' = i + 1
  /\ UNCHANGED <<pc, setup, ctx, handlerSet, running, measFile, files, console,
                 inCallback, dataset, ret, destroyed, nDelivered>>

\* The loop is over: destroy the data set and return kOK.
OnDataReturn ==
  /\ Alive
  /\ inCallback
  /\ i = Len(dataset)
  /\ destroyed' = destroyed + 1
  /\ ret' = "kOK"
  /\ inCallback' = FALSE
  /\ UNCHANGED <<pc, setup, ctx, handlerSet, running, measFile, files, console,
                 dataset, i, nDelivered, hist>>

onData == OnDataStamp \/ OnDataSurface \/ OnDataMeasurement \/ OnDataOther \/ OnDataReturn

Next == Main \/ Deliver \/ onData

Spec == Init /\ [][Next]_vars

\* The same program connected to a sensor that is already running (started
\* before the program, which never stops it first): data sets arrive as soon
\* as the data handler is registered.
InitSensorRunning ==
  /\ pc = "GoSdk_Construct"
  /\ setup = "kNULL"
  /\ ctx \in [count : UninitCounts, timeStamp : UninitStamps,
              frameRate : {Garbage}, exposureTime : {Garbage},
              measFilePointer : {Garbage}]
  /\ handlerSet = FALSE
  /\ running = TRUE
  /\ measFile = [state |-> "none", lines |-> << >>, closes |-> 0]
  /\ files = << >>
  /\ console = << >>
  /\ inCallback = FALSE
  /\ dataset = << >>
  /\ i = 0
  /\ ret = "none"
  /\ destroyed = 0
  /\ nDelivered = 0
  /\ hist = << >>

\* main up to the first getchar(), where it waits for the user.
Arming ==
  \/ MainSdkConstruct \/ MainSystemConstruct \/ MainFindSensor \/ MainConnect
  \/ MainEnableData \/ MainSetDataHandler \/ MainSetup \/ MainResetCounter
  \/ MainScanMode \/ MainOpenLog

\* The data sets that arrive while main is arming the session.
DeliverWhileArming ==
  /\ nDelivered < MaxEarlyBatches
  /\ Deliver

NextSensorRunning == Arming \/ DeliverWhileArming \/ onData

SpecSensorRunning == InitSensorRunning /\ [][NextSensorRunning]_vars

\* -------------------------------------------------------------- properties
SurfaceEntries == {p \in 1..Len(hist) : hist[p].type = "SURFACE"}
StampEntries == {p \in 1..Len(hist) : hist[p].type = "STAMP"}
MeasurementEntries == {p \in 1..Len(hist) : hist[p].type = "MEASUREMENT"}

Max(S) == CHOOSE x \in S : \A y \in S : y <= x

Field(chunks, f) == chunks[CHOOSE n \in 1..Len(chunks) : chunks[n].field = f].value

\* The artifact of the Surface message handled as hist[p].
Artifact(p) == files[hist[p].filename]

\* The invocation that handled the last data set has returned.
Returned == ~inCallback /\ nDelivered > 0

OpenFailedInLastBatch(p) ==
  /\ p \in SurfaceEntries
  /\ hist[p].batch = nDelivered
  /\ ~hist[p].opened

Logged(batch, idx) ==
  \E n \in 1..Len(measFile.lines) :
    measFile.lines[n].batch = batch /\ measFile.lines[n].idx = idx

\* C1: when the invocation for a data set has returned and the artifact file
\* of one of its Surface messages could not be opened, every Measurement
\* message that follows that Surface message in the data set has been
\* appended to the measurement log.
C1_MeasurementLoggedAfterOpenFailure ==
  Returned =>
    \A p \in 1..Len(hist) :
      OpenFailedInLastBatch(p) =>
        \A q \in (hist[p].idx + 2)..Len(dataset) :
          dataset[q].type = "MEASUREMENT" => Logged(nDelivered, q - 1)

\* The Stamp messages with at least one stamp handled before hist[p].
StampsBefore(p) == {q \in StampEntries : q < p /\ hist[q].stamps # << >>}
LastOf(seq) == seq[Len(seq)]
MostRecentStamp(p) == LastOf(hist[Max(StampsBefore(p))].stamps)

TimestampWritten(p) ==
  /\ p \in SurfaceEntries
  /\ hist[p].opened
  /\ 2 \notin hist[p].failed

\* C2: the timestamp field of every Surface artifact is the last stamp of the
\* latest Stamp message handled before that Surface message, in the same data
\* set or an earlier one, whatever is handled after it.
C2_TimestampIsMostRecentStamp ==
  \A p \in 1..Len(hist) :
    (TimestampWritten(p) /\ StampsBefore(p) # {}) =>
      Field(Artifact(p), "timeStamp") = MostRecentStamp(p)

\* C2's case: a Surface message whose latest stamp came in an earlier data
\* set, after an older Stamp message and before a later one with another value.
C2_Witness ==
  \E p \in 1..Len(hist) :
    /\ TimestampWritten(p)
    /\ StampsBefore(p) # {}
    /\ hist[Max(StampsBefore(p))].batch < hist[p].batch
    /\ Field(Artifact(p), "timeStamp") = MostRecentStamp(p)
    /\ \E q \in StampEntries : q > p /\ LastOf(hist[q].stamps) # MostRecentStamp(p)

\* C3: the timestamp field of the artifact of a Surface message handled
\* before any Stamp message is 0.
C3_TimestampDefaultsToZero ==
  \A p \in 1..Len(hist) :
    (TimestampWritten(p) /\ StampsBefore(p) = {}) =>
      Field(Artifact(p), "timeStamp") = 0

\* The session is armed: main has reset the counter and has not returned.
Armed == pc \in {"GoSetup_ScanMode", "OpenLog", "WaitStart", "Logging", "Close"}

\* C4: arming sets the scan counter to 0; from then on every step that handles
\* a Surface message adds exactly 1 to it and no other step changes it, so it
\* never decreases and is never reset during the session.
C4_ScanCounterCountsSurfaces ==
  [][/\ pc = "ResetCounter" => ctx'.count = 0
     /\ Armed => ctx'.count = ctx.count + (Handled("SURFACE")' - Handled("SURFACE"))]_vars

\* C4's case: two Surface messages of different data sets have been counted.
C4_Witness ==
  /\ Armed
  /\ ctx.count = 2
  /\ \E p, q \in SurfaceEntries : hist[p].batch < hist[q].batch

\* Arrival order: data set, then message in the data set, then measurement
\* in the message.
ArrivedBefore(a, b) ==
  \/ a.batch < b.batch
  \/ a.batch = b.batch /\ a.idx < b.idx
  \/ a.batch = b.batch /\ a.idx = b.idx /\ a.k < b.k

\* C5: the lines of the measurement log are in the arrival order of their
\* measurements, and no measurement has two lines.
C5_LogInArrivalOrder ==
  \A m, n \in 1..Len(measFile.lines) :
    m < n => ArrivedBefore(measFile.lines[m], measFile.lines[n])

\* C5's case: the log holds measurements of two data sets, two of them of
\* the same Measurement message.
C5_Witness ==
  \E m, n, o \in 2..Len(measFile.lines) :
    /\ m < n /\ n < o
    /\ measFile.lines[m].batch < measFile.lines[o].batch
    /\ \/ measFile.lines[m].batch = measFile.lines[n].batch /\ measFile.lines[m].idx = measFile.lines[n].idx
       \/ measFile.lines[n].batch = measFile.lines[o].batch /\ measFile.lines[n].idx = measFile.lines[o].idx

FullyWritten(p) ==
  /\ p \in SurfaceEntries
  /\ hist[p].opened
  /\ hist[p].failed = {}
  /\ hist[p].msg.width > 0
  /\ hist[p].msg.length > 0

\* C6 as stated: an artifact whose file opened and whose writes all succeeded
\* is 80 + 2*width*length bytes long.
C6_ArtifactSizeHeader80 ==
  \A p \in 1..Len(hist) :
    FullyWritten(p) =>
      FileSize(Artifact(p)) = 80 + 2 * hist[p].msg.width * hist[p].msg.length

\* C6 as amended: an artifact whose file opened and whose writes all succeeded
\* is 96 + 2*width*length bytes long: a header of 16 + 8 + 4 + 4 + 8*8 bytes,
\* then the rows.
C6_ArtifactSizeHeader96 ==
  \A p \in 1..Len(hist) :
    FullyWritten(p) =>
      FileSize(Artifact(p)) = 96 + 2 * hist[p].msg.width * hist[p].msg.length

\* C6's case: two fully written artifacts of different dimensions.
C6_Witness ==
  \E p, q \in 1..Len(hist) :
    /\ FullyWritten(p) /\ FullyWritten(q)
    /\ hist[p].msg.width # hist[q].msg.width
    /\ FileSize(Artifact(p)) # FileSize(Artifact(q))

\* The line C7 describes: both numbers right-aligned in 4 characters, each
\* followed by "; ", the value with two decimals, CR LF.
ClaimedLine(count, id, value) ==
  PadLeft(Digits(count), 4) \o "; " \o PadLeft(Digits(id), 4) \o "; "
    \o Fmt_2f(value) \o "\r\n"

\* The Measurement message a line of the log was written for.
MessageOf(line) ==
  hist[CHOOSE p \in MeasurementEntries :
         hist[p].batch = line.batch /\ hist[p].idx = line.idx]

\* C7: every line of the log after the header is the scan count right-aligned
\* in 4 characters, "; ", the id right-aligned in 4 characters, "; ", the value
\* with two decimals, CR LF; for 2, 7 and 3.14159 it is "   2;    7; 3.14\r\n".
C7_LogLineFormat ==
  \A n \in 2..Len(measFile.lines) :
    LET line == measFile.lines[n]
        m == MessageOf(line)
        value == m.msg.values[line.k + 1]
    IN /\ line.text = ClaimedLine(m.count, m.msg.id, value)
       /\ (m.count = 2 /\ m.msg.id = 7 /\ value = 314159)
            => line.text = "   2;    7; 3.14\r\n"

Range(seq) == {seq[n] : n \in 1..Len(seq)}

\* C8: after a Surface message has been handled, a short write was not
\* reported as a written artifact, and the file under the artifact's name, if
\* there is one, is complete.
C8_ShortWriteLeavesNoTruncatedFile ==
  \A p \in SurfaceEntries :
    /\ (hist[p].opened /\ hist[p].failed # {})
         => "Surface written to file" \notin Range(hist[p].printed)
    /\ hist[p].filename \in DOMAIN files
         => FileSize(Artifact(p)) = 96 + 2 * hist[p].msg.width * hist[p].msg.length

HardFailure(p) ==
  /\ p \in SurfaceEntries
  /\ ~hist[p].opened \/ hist[p].failed # {}

\* C9: the status onData returns is kOK exactly when no message of the data
\* set met a hard failure (an artifact file that did not open, a short write).
C9_ReturnsFirstHardFailure ==
  Returned =>
    (ret = "kOK" <=> ~\E p \in 1..Len(hist) : HardFailure(p) /\ hist[p].batch = nDelivered)

\* C10: when main has returned after opening the measurement log, the log has
\* been closed, exactly once.
C10_LogClosedExactlyOnce ==
  (pc = "returned" /\ measFile.state # "none") =>
    (measFile.state = "closed" /\ measFile.closes = 1)

\* The log handle of the context is the open measurement log, header written.
LogHandleOpen ==
  /\ ctx.measFilePointer = "measFile"
  /\ measFile.state = "open"
  /\ Len(measFile.lines) >= 1
  /\ measFile.lines[1].text = MeasHeaderLine

\* C11: while an invocation of onData is in flight the session is armed and
\* not closed: main has reset the counter and captured frame rate and
\* exposure, and the log handle is the open measurement log with its header.
C11_DispatchOnlyWhileArmed ==
  (inCallback /\ Alive) => (Armed /\ LogHandleOpen)

\* C12: once main has reported the null setup handle it has stopped: it has
\* returned, the camera settings were not read, the log was not opened and the
\* sensor was not started.
C12_NullSetupHandleIsFatal ==
  "Error: GoSensor_Setup: Invalid Handle" \in Range(console)
    => /\ pc = "returned"
       /\ ctx.frameRate = Garbage /\ ctx.exposureTime = Garbage
       /\ measFile.state = "none"
       /\ ~running

\* This step handles one message of kind t.
Handles(t) ==
  /\ Len(hist') = Len(hist) + 1
  /\ hist'[Len(hist')].type = t

\* This step is a step of an invocation of onData.
OnDataStep == inCallback /\ (hist' # hist \/ inCallback' # inCallback)

IsPrefix(s, t) == Len(s) <= Len(t) /\ \A k \in 1..Len(s) : t[k] = s[k]

\* C13: each message kind changes only its own part of the state.  A stamp
\* changes nothing but the timestamp; a surface changes nothing but the scan
\* counter and creates at most the one artifact it names, leaving the others
\* alone; a measurement changes no context field and only appends to the log;
\* any other kind changes nothing.  No step of onData modifies the frame rate,
\* the exposure or the log handle.
C13_FrameOfEachKind ==
  [][ OnDataStep =>
        /\ ctx'.frameRate = ctx.frameRate
        /\ ctx'.exposureTime = ctx.exposureTime
        /\ ctx'.measFilePointer = ctx.measFilePointer
        /\ measFile'.state = measFile.state
        /\ Handles("STAMP") =>
             /\ ctx' = [ctx EXCEPT !.timeStamp = ctx'.timeStamp]
             /\ measFile' = measFile /\ files' = files
        /\ Handles("SURFACE") =>
             /\ ctx' = [ctx EXCEPT !.count = ctx'.count]
             /\ measFile' = measFile
             /\ DOMAIN files' \subseteq DOMAIN files \cup {hist'[Len(hist')].filename}
             /\ \A f \in DOMAIN files : f \in DOMAIN files' /\ files'[f] = files[f]
             /\ hist'[Len(hist')].opened <=>
                  DOMAIN files' = DOMAIN files \cup {hist'[Len(hist')].filename}
        /\ Handles("MEASUREMENT") =>
             /\ ctx' = ctx
             /\ files' = files
             /\ IsPrefix(measFile.lines, measFile'.lines)
        /\ Handles("OTHER") =>
             /\ ctx' = ctx /\ measFile' = measFile /\ files' = files
        /\ hist' = hist =>
             /\ ctx' = ctx /\ measFile' = measFile /\ files' = files
    ]_vars

\* All four kinds have been handled: a stamp changed the timestamp, a surface
\* created its artifact, a measurement was appended to the log.
C13_Witness ==
  /\ Handled("STAMP") >= 1 /\ Handled("SURFACE") >= 1
  /\ Handled("MEASUREMENT") >= 1 /\ Handled("OTHER") >= 1
  /\ ctx.timeStamp \notin UninitStamps
  /\ ctx.count = 1
  /\ Cardinality(DOMAIN files) = 1
  /\ Len(measFile.lines) = 3

IsRow(chunk) == chunk.field = "row"

\* The row-data section of the artifact of hist[p]: what its row loop wrote.
RowSection(p) == SelectSeq(Artifact(p), IsRow)

\* The file of hist[p] opened and no fwrite of its row loop was short.
RowsWritten(p) ==
  /\ p \in SurfaceEntries
  /\ hist[p].opened
  /\ \A n \in hist[p].failed : n <= 12

\* C14: the row-data section of an artifact whose rows were written is the
\* source grid: one chunk per row, rows 0 to length-1 in increasing order at
\* the end of the file, each of width samples and 2*width bytes, every sample
\* (the invalid-range value -32768 too) with the value it has in the message.
C14_RowDataIsSourceGrid ==
  \A p \in 1..Len(hist) :
    RowsWritten(p) =>
      LET msg == hist[p].msg
          rows == RowSection(p)
          file == Artifact(p)
      IN /\ Len(rows) = msg.length
         /\ \A r \in 1..msg.length :
              /\ rows[r].value = msg.rows[r]
              /\ Len(rows[r].value) = msg.width
              /\ rows[r].size = 2 * msg.width
              /\ file[Len(file) - msg.length + r] = rows[r]

\* C14's case: an artifact of two different rows, one of them holding the
\* invalid-range value.
C14_Witness ==
  \E p \in 1..Len(hist) :
    /\ RowsWritten(p)
    /\ hist[p].msg.length = 2
    /\ RowSection(p)[1].value # RowSection(p)[2].value
    /\ RowSection(p)[2].value = <<INVALID_RANGE_16BIT>>

\* The file of hist[p] opened and no fwrite of its header was short.
HeaderWritten(p) ==
  /\ p \in SurfaceEntries
  /\ hist[p].opened
  /\ \A n \in hist[p].failed : n > 12

\* C15: the header of an artifact is, in this order, the tag in 16 bytes (the
\* format identifier followed by the 4-character version, no terminator), the
\* timestamp in 8 bytes, the width and the length in 4 bytes each, then in 8
\* bytes each the x-offset, x-resolution, y-offset, y-resolution, z-offset,
\* z-resolution, the frame rate and the exposure time held by the context
\* since setup.
C15_HeaderLayout ==
  \A p \in 1..Len(hist) :
    HeaderWritten(p) =>
      LET header == SubSeq(Artifact(p), 1, 12)
      IN /\ [n \in 1..12 |-> header[n].field] =
              <<"headerText", "timeStamp", "surfaceWidth", "surfaceLength",
                "XOffset", "XResolution", "YOffset", "YResolution",
                "ZOffset", "ZResolution", "frameRate", "exposureTime">>
         /\ [n \in 1..12 |-> header[n].size] = <<16, 8, 4, 4, 8, 8, 8, 8, 8, 8, 8, 8>>
         /\ header[1].value = "MHSKJELV VER" \o "0001"
         /\ Len(header[1].value) = 16
         /\ header[3].value = hist[p].msg.width
         /\ header[4].value = hist[p].msg.length
         /\ header[11].value = ctx.frameRate
         /\ header[12].value = ctx.exposureTime
         /\ setup = "handle" =>
              header[11].value \in FrameRates /\ header[12].value \in Exposures

\* C15's case: a complete artifact written in a session that read the camera
\* settings through a valid setup handle.
C15_Witness ==
  \E p \in 1..Len(hist) :
    /\ FullyWritten(p)
    /\ setup = "handle"
    /\ Artifact(p)[1].size = 16
    /\ Artifact(p)[11].value \in FrameRates
    /\ Artifact(p)[12].value \in Exposures

\* The raw value of the message behind a converted header field.
Raw(msg, f) ==
  CASE f = "XResolution" -> msg.xRes [] f = "YResolution" -> msg.yRes
    [] f = "ZResolution" -> msg.zRes [] f = "XOffset" -> msg.xOff
    [] f = "YOffset" -> msg.yOff [] f = "ZOffset" -> msg.zOff

Resolutions == {"XResolution", "YResolution", "ZResolution"}
Offsets == {"XOffset", "YOffset", "ZOffset"}

\* value is raw divided by divisor.
IsQuotient(value, raw, divisor) ==
  /\ value.den > 0
  /\ value.num * divisor = raw * value.den

\* C16: every resolution written into a header is the raw value of the message
\* divided by 1,000,000 and every offset the raw value divided by 1,000; a raw
\* resolution of 1000000 and a raw offset of 1000 are both written as 1.
C16_HeaderUnitConversion ==
  \A p \in SurfaceEntries :
    hist[p].opened =>
      \A n \in 1..Len(Artifact(p)) :
        LET chunk == Artifact(p)[n]
            msg == hist[p].msg
        IN /\ chunk.field \in Resolutions =>
                /\ IsQuotient(chunk.value, Raw(msg, chunk.field), 1000000)
                /\ Raw(msg, chunk.field) = 1000000 => chunk.value = [num |-> 1, den |-> 1]
           /\ chunk.field \in Offsets =>
                /\ IsQuotient(chunk.value, Raw(msg, chunk.field), 1000)
                /\ Raw(msg, chunk.field) = 1000 => chunk.value = [num |-> 1, den |-> 1]

\* C16's case: a complete artifact of a message with x-resolution 1000000 and
\* x-offset 1000, and with a resolution and an offset that are no whole
\* millimetres.
C16_Witness ==
  \E p \in 1..Len(hist) :
    /\ FullyWritten(p)
    /\ hist[p].msg.xRes = 1000000 /\ hist[p].msg.xOff = 1000
    /\ Field(Artifact(p), "XResolution") = [num |-> 1, den |-> 1]
    /\ Field(Artifact(p), "XOffset") = [num |-> 1, den |-> 1]
    /\ Field(Artifact(p), "YResolution") = [num |-> 1, den |-> 2]
    /\ Field(Artifact(p), "YOffset") = [num |-> -5, den |-> 2]

\* The place in hist of the Measurement message a line of the log was written for.
EntryOf(line) ==
  CHOOSE p \in MeasurementEntries : hist[p].batch = line.batch /\ hist[p].idx = line.idx

\* The Surface messages handled before hist[p].
SurfacesBefore(p) == Cardinality({q \in SurfaceEntries : q < p})

\* A line of the log that carries the scan number n in its first field.
LineWithScanNumber(n, id, value) ==
  PadLeft(Digits(n), 4) \o ";" \o Fmt4_0u(id) \o "; " \o Fmt_2f(value) \o "\r\n"

\* C17: the scan number written in every line of the log is the number of
\* Surface messages handled before the line's Measurement message: 0 before
\* any Surface message, n after the n-th.
C17_ScanNumberInLogLine ==
  \A n \in 2..Len(measFile.lines) :
    LET line == measFile.lines[n]
        p == EntryOf(line)
    IN line.text = LineWithScanNumber(SurfacesBefore(p), hist[p].msg.id,
                                      hist[p].msg.values[line.k + 1])

\* What the fwrite calls for hist[p] left in its file.
WrittenFor(p) ==
  Written(SurfaceWrites(hist[p].msg, [ctx EXCEPT !.timeStamp = hist[p].timeStamp]),
          hist[p].failed, 1)

\* C18: no two Surface messages of the session have the same artifact file
\* name, there is exactly one file per Surface message whose file opened, and
\* every file still holds what was written for its own Surface message.
C18_ArtifactNamesUnique ==
  /\ \A p, q \in SurfaceEntries : p # q => hist[p].filename # hist[q].filename
  /\ Cardinality(DOMAIN files) = Cardinality({p \in SurfaceEntries : hist[p].opened})
  /\ \A p \in SurfaceEntries : hist[p].opened =>
       /\ hist[p].filename \in DOMAIN files
       /\ Artifact(p) = WrittenFor(p)

\* C18's case: two complete artifacts named within the same second, and the
\* first one is still there after the second was written.
C18_Witness ==
  \E p, q \in 1..Len(hist) :
    /\ p < q
    /\ FullyWritten(p) /\ FullyWritten(q)
    /\ hist[p].filename.time = hist[q].filename.time
    /\ hist[p].filename # hist[q].filename
    /\ Cardinality(DOMAIN files) = 2
    /\ Artifact(p) = WrittenFor(p)

\* C19: an invocation of onData that has returned has destroyed the data set
\* it was given exactly once, whatever path it took (the artifact files are
\* opened and closed within the handling of their Surface message).
C19_DatasetReleasedOnce ==
  Returned => destroyed = 1
====
